---- MODULE Spec2Model ----
(***************************************************************************)
(* Tiered resolution pipeline of verify-your-cart: analyzeProduct tries    *)
(* the Tier 1 provider model, then the Tier 2 provider model, then the     *)
(* deterministic estimator mockAnalyzeProduct.                             *)
(*                                                                         *)
(* Strings are TLA+ strings (Len, SubSeq and \o act on them character by   *)
(* character).  A JavaScript value is a tagged record, so that a field of  *)
(* the provider's JSON can hold a value of any type.                       *)
(***************************************************************************)
EXTENDS Integers, Sequences, FiniteSets, TLC

VARIABLES
    url,        \* argument of analyzeProduct
    envKey,     \* process.env.API_KEY: a JavaScript value (undefined or string)
    pc,         \* position of the async function
    clock,      \* logical time, advanced at every step
    client,     \* new GoogleGenAI(...): "none", "constructed" or "threw"
    calls,      \* provider calls issued so far, in order (the request of each)
    pending,    \* number of provider calls awaiting their reply
    resp1,      \* what the Tier 1 call produced
    resp2,      \* what the Tier 2 call produced
    mockCalls,  \* number of invocations of mockAnalyzeProduct
    outcome,    \* "pending", "resolved" or "rejected"
    result,     \* the value the promise resolved with
    norm,       \* a run of parseResponse on its own: the text and what came out
    legacy      \* the run of analyzeProduct of src/unnamed/part_000 (a record)

vars == <<url, envKey, pc, clock, client, calls, pending, resp1, resp2,
          mockCalls, outcome, result, norm, legacy>>

-----------------------------------------------------------------------------
(* Bounds *)

\* citation chunks attached to one provider response
MaxChunks == 6

-----------------------------------------------------------------------------
(* JavaScript values *)

Undefined == [t |-> "undefined"]
Null == [t |-> "null"]
\* a number w + f/10; f # 0 makes it a non-integer
Num(w, f) == [t |-> "number", w |-> w, f |-> f]
Str(s) == [t |-> "string", s |-> s]
Arr(a) == [t |-> "array", a |-> a]
Obj(o) == [t |-> "object", o |-> o]

\* the empty object {}
EmptyFields == [k \in {} |-> Undefined]

\* ToBoolean: undefined, null, 0 and "" are falsy; arrays and objects truthy
Truthy(v) ==
    CASE v.t = "undefined" -> FALSE
      [] v.t = "null" -> FALSE
      [] v.t = "number" -> ~(v.w = 0 /\ v.f = 0)
      [] v.t = "string" -> v.s # ""
      [] OTHER -> TRUE

\* a || b
OrElse(a, b) == IF Truthy(a) THEN a ELSE b

\* v.k on a value that is neither undefined nor null
Get(v, k) ==
    IF v.t = "object" /\ k \in DOMAIN v.o THEN v.o[k] ELSE Undefined

\* v?.k
OptGet(v, k) ==
    IF v.t \in {"undefined", "null"} THEN Undefined ELSE Get(v, k)

-----------------------------------------------------------------------------
(* Strings *)

UpperCase == "ABCDEFGHIJKLMNOPQRSTUVWXYZ"
LowerCase == "abcdefghijklmnopqrstuvwxyz"

CharAt(s, i) == SubSeq(s, i, i)

LowerChar(c) ==
    IF \E i \in 1..Len(UpperCase) : CharAt(UpperCase, i) = c
    THEN CharAt(LowerCase, CHOOSE i \in 1..Len(UpperCase) : CharAt(UpperCase, i) = c)
    ELSE c

RECURSIVE toLowerCase(_)
toLowerCase(s) ==
    IF Len(s) = 0 THEN ""
    ELSE IF Len(s) = 1 THEN LowerChar(s)
    ELSE toLowerCase(SubSeq(s, 1, Len(s) \div 2))
            \o toLowerCase(SubSeq(s, Len(s) \div 2 + 1, Len(s)))

\* s.includes(k)
includes(s, k) ==
    \E i \in 1..(Len(s) - Len(k) + 1) : SubSeq(s, i, i + Len(k) - 1) = k

IsSpace(c) == c \in {" ", "\n", "\t"}

RECURSIVE trimStart(_)
trimStart(s) ==
    IF Len(s) > 0 /\ IsSpace(CharAt(s, 1)) THEN trimStart(SubSeq(s, 2, Len(s))) ELSE s

RECURSIVE trimEnd(_)
trimEnd(s) ==
    IF Len(s) > 0 /\ IsSpace(CharAt(s, Len(s))) THEN trimEnd(SubSeq(s, 1, Len(s) - 1)) ELSE s

trim(s) == trimEnd(trimStart(s))

-----------------------------------------------------------------------------
(* The estimator, src/services/mockAnalysisService.ts *)

trustedDomains ==
    {"amazon", "flipkart", "myntra", "apple", "nike", "adidas",
     "samsung", "bestbuy", "walmart", "target", "ebay", "meesho",
     "ajio", "tatacliq", "jiomart", "zara", "h&m", "uniqlo"}

scamKeywords ==
    {"free", "giveaway", "winner", "70-off", "80-off", "90-off",
     "lucky-draw", "wheel-spin", "claim-now", "urgent", "limited-time"}

\* trustedDomains.some(d => urlLower.includes(d))
isTrusted(urlLower) == \E d \in trustedDomains : includes(urlLower, d)

\* scamKeywords.some(k => urlLower.includes(k))
isScam(urlLower) == \E k \in scamKeywords : includes(urlLower, k)

\* the record mockAnalyzeProduct returns, given its two flags
mockRecord(u, trusted, scam, now) ==
    [ trust_score |-> IF trusted THEN Num(92, 0)
                      ELSE IF scam THEN Num(25, 0) ELSE Num(65, 0),
      verdict |-> IF trusted THEN "Genuine"
                  ELSE IF scam THEN "Fake" ELSE "Suspicious",
      reasons |-> Arr(<<
          IF trusted THEN "Domain matches a known major retailer"
                     ELSE "Domain trust level is low or unknown",
          IF scam THEN "Suspicious promotional keywords detected"
                  ELSE "Pricing analysis inconclusive",
          "Seller reputation scan completed" >>),
      advice |-> Str(IF trusted
                     THEN "This appears to be a verified listing from a trusted major retailer. Safe to proceed."
                     ELSE IF scam
                     THEN "High Risk! This URL contains keywords commonly associated with phishing or scam campaigns."
                     ELSE "We couldn't fully verify this site. Proceed with caution."),
      url |-> u,
      timestamp |-> now,
      sources |-> <<>>,
      breakdown |->
        [ reviews |-> Arr(<<"Unable to fetch live reviews (Mock Mode).">>),
          sentiment |-> Arr(<<"Sentiment analysis unavailable (Mock Mode).">>),
          price |-> Arr(<<"Price comparison unavailable (Mock Mode).">>),
          seller |-> Arr(<<"Seller verification skipped.">>),
          description |-> Arr(<<"URL structure analyzed.">>) ] ]

\* variant: the scam test takes priority over the trusted test
mockFlagsScamFirst(u, urlLower, now) ==
    mockRecord(u, isTrusted(urlLower) /\ ~isScam(urlLower), isScam(urlLower), now)

mockFlags(u, urlLower, now) == mockRecord(u, isTrusted(urlLower), isScam(urlLower), now)

mockAnalyzeProduct(u, now) == mockFlags(u, toLowerCase(u), now)

-----------------------------------------------------------------------------
(* JSON text.  JSON.parse is the inverse of stringify on the documents the  *)
(* provider can send; any other text is a syntax error.                     *)

Bool(b) == [t |-> "boolean", b |-> b]

KeyOrder == <<"trust_score", "verdict", "reasons", "advice", "breakdown",
              "reviews", "sentiment", "price", "seller", "description">>

Quote(s) == "\"" \o s \o "\""

RECURSIVE JoinStrings(_, _)
JoinStrings(a, i) ==
    IF i > Len(a) THEN ""
    ELSE (IF i > 1 THEN "," ELSE "") \o Quote(a[i]) \o JoinStrings(a, i + 1)

RECURSIVE stringify(_)
RECURSIVE StringifyMembers(_, _, _)
StringifyMembers(o, i, first) ==
    IF i > Len(KeyOrder) THEN ""
    ELSE IF KeyOrder[i] \in DOMAIN o
         THEN (IF first THEN "" ELSE ",") \o Quote(KeyOrder[i]) \o ":"
                  \o stringify(o[KeyOrder[i]]) \o StringifyMembers(o, i + 1, FALSE)
         ELSE StringifyMembers(o, i + 1, first)

stringify(v) ==
    CASE v.t = "null" -> "null"
      [] v.t = "boolean" -> IF v.b THEN "true" ELSE "false"
      [] v.t = "number" -> IF v.f = 0 THEN ToString(v.w)
                           ELSE ToString(v.w) \o "." \o ToString(v.f)
      [] v.t = "string" -> Quote(v.s)
      [] v.t = "array" -> "[" \o JoinStrings(v.a, 1) \o "]"
      [] v.t = "object" -> "{" \o StringifyMembers(v.o, 1, TRUE) \o "}"

Ok(v) == [ok |-> TRUE, v |-> v]
Throw(e) == [ok |-> FALSE, err |-> e]

-----------------------------------------------------------------------------
(* What the provider can answer *)

Slots == {"reviews", "sentiment", "price", "seller", "description"}

FullBreakdown ==
    Obj([k \in Slots |-> Arr(<<"Checked " \o k>>)])

FullRecord ==
    ("trust_score" :> Num(85, 0)) @@ ("verdict" :> Str("Genuine")) @@
    ("reasons" :> Arr(<<"Official store", "Many reviews">>)) @@
    ("advice" :> Str("Safe to buy.")) @@ ("breakdown" :> FullBreakdown)

Without(o, k) == [j \in DOMAIN o \ {k} |-> o[j]]

ScoreValues ==
    {Num(0, 0), Num(100, 0), Num(150, 0), Num(-5, 0), Num(3, 7), Str("high"), Null}

LabelValues ==
    {Str(""), Str("SAFE to buy"), Str("Fake"), Str("Likely SCAM"), Str("Dangerous"),
     Str("unverified"), Str("Not genuine - fake"), Str("Unsafe scam"), Num(5, 0), Null}

ReasonsValues == {Arr(<<>>), Str("none"), Null}

AdviceValues == {Str(""), Null}

BreakdownValues ==
    {Obj(EmptyFields), Null, Str("n/a"),
     Obj([FullBreakdown.o EXCEPT !["reviews"] = Arr(<<>>)]),
     Obj([FullBreakdown.o EXCEPT !["price"] = Str("")]),
     Obj(Without(FullBreakdown.o, "seller"))}

FieldValues(k) ==
    CASE k = "trust_score" -> ScoreValues
      [] k = "verdict" -> LabelValues
      [] k = "reasons" -> ReasonsValues
      [] k = "advice" -> AdviceValues
      [] k = "breakdown" -> BreakdownValues

\* JSON objects: the full record, the empty one, and the full record with one
\* field changed or left out
JsonObjects ==
    {Obj(FullRecord), Obj(EmptyFields)}
    \cup {Obj(Without(FullRecord, k)) : k \in DOMAIN FullRecord}
    \cup UNION {{Obj([FullRecord EXCEPT ![k] = v]) : v \in FieldValues(k)} :
                k \in DOMAIN FullRecord}

\* JSON documents that are not objects
JsonPrimitives == {Null, Num(5, 0), Str("ok"), Bool(TRUE), Arr(<<"x">>)}

JsonDocs == JsonObjects \cup JsonPrimitives

JsonText == [d \in JsonDocs |-> stringify(d)]

\* JSON.parse(s): leading and trailing white space is allowed
lookupJson(t) ==
    IF \E d \in JsonDocs : JsonText[d] = t
    THEN Ok(CHOOSE d \in JsonDocs : JsonText[d] = t)
    ELSE Throw("SyntaxError")

JSONparse(s) == lookupJson(trim(s))

-----------------------------------------------------------------------------
(* parseResponse and formatResult, src/services/analysisService.ts *)

Min(a, b) == IF a < b THEN a ELSE b
Max(a, b) == IF a < b THEN b ELSE a

\* s.indexOf(c) and s.lastIndexOf(c) for a one-character c: 0-based, -1 if absent
indexOf(s, c) ==
    IF \E i \in 1..Len(s) : CharAt(s, i) = c
    THEN (CHOOSE i \in 1..Len(s) :
            CharAt(s, i) = c /\ \A j \in 1..(i - 1) : CharAt(s, j) # c) - 1
    ELSE -1

lastIndexOf(s, c) ==
    IF \E i \in 1..Len(s) : CharAt(s, i) = c
    THEN (CHOOSE i \in 1..Len(s) :
            CharAt(s, i) = c /\ \A j \in (i + 1)..Len(s) : CharAt(s, j) # c) - 1
    ELSE -1

\* s.substring(a, b): 0-based, end exclusive, arguments swapped when a > b
substring(s, a, b) ==
    LET lo == Min(Max(Min(a, b), 0), Len(s))
        hi == Min(Max(Max(a, b), 0), Len(s))
    IN SubSeq(s, lo + 1, hi)

startsWithAt(s, i, k) == i + Len(k) - 1 <= Len(s) /\ SubSeq(s, i, i + Len(k) - 1) = k

\* the code-fence marker: three backticks in the source, written with tildes
\* here because a TLA+ string cannot hold a backtick
Fence == "~~~"

\* s.replace(/<fence>json|<fence>/g, '')
RECURSIVE removeFences(_, _)
removeFences(s, i) ==
    IF ~\E j \in i..Len(s) : startsWithAt(s, j, Fence) THEN SubSeq(s, i, Len(s))
    ELSE LET j == CHOOSE j \in i..Len(s) :
                    /\ startsWithAt(s, j, Fence)
                    /\ \A h \in i..(j - 1) : ~startsWithAt(s, h, Fence)
             n == IF startsWithAt(s, j, Fence \o "json")
                  THEN Len(Fence \o "json") ELSE Len(Fence)
         IN SubSeq(s, i, j - 1) \o removeFences(s, j + n)

\* variant: the text is parsed whole
parseWithoutSlice(cleanText, start, end) == JSONparse(cleanText)

\* the slice from the first { to the last }, when both exist, then JSON.parse
sliceAndParse(cleanText, start, end) ==
    JSONparse(IF start # -1 /\ end # -1
              THEN substring(cleanText, start, end + 1)
              ELSE cleanText)

locateAndParse(cleanText) ==
    sliceAndParse(cleanText, indexOf(cleanText, "{"), lastIndexOf(cleanText, "}"))

parseResponse(rawText) ==
    IF ~Truthy(rawText) THEN Throw("Empty response from AI")
    ELSE locateAndParse(trim(removeFences(rawText.s, 1)))

\* a.slice(lo, hi): 0-based, end exclusive
sliceNone(a, lo, hi) == a

slice(a, lo, hi) == SubSeq(a, lo + 1, Min(hi, Len(a)))

\* variants of the verdict mapping: the label passed through when no keyword
\* matches; the Fake keywords tested first
mappedVerdictVerbatim(v) ==
    IF includes(v, "genuine") \/ includes(v, "safe") THEN "Genuine"
    ELSE IF includes(v, "fake") \/ includes(v, "scam") THEN "Fake"
    ELSE v

mappedVerdictFakeFirst(v) ==
    IF includes(v, "fake") \/ includes(v, "scam") THEN "Fake"
    ELSE IF includes(v, "genuine") \/ includes(v, "safe") THEN "Genuine"
    ELSE "Suspicious"

\* variant: a label without any keyword is taken as trustworthy
mappedVerdictDefaultGenuine(v) ==
    IF includes(v, "fake") \/ includes(v, "scam") THEN "Fake"
    ELSE "Genuine"

\* the verdict mapping of formatResult, on the lower-cased label
mappedVerdict(v) ==
    IF includes(v, "genuine") \/ includes(v, "safe") THEN "Genuine"
    ELSE IF includes(v, "fake") \/ includes(v, "scam") THEN "Fake"
    ELSE "Suspicious"

DataUnavailable == Arr(<<"Data unavailable">>)

formatResult(res, sources, u, now) ==
    IF res.t \in {"undefined", "null"} THEN Throw("TypeError")
    ELSE LET label == OrElse(Get(res, "verdict"), Str(""))
         IN IF label.t # "string" THEN Throw("TypeError")
            ELSE Ok(
              [ trust_score |-> OrElse(Get(res, "trust_score"), Num(0, 0)),
                verdict |-> mappedVerdict(toLowerCase(label.s)),
                reasons |-> OrElse(Get(res, "reasons"),
                                   Arr(<<"Analysis based on domain patterns.">>)),
                advice |-> OrElse(Get(res, "advice"), Str("Proceed with caution.")),
                url |-> u,
                timestamp |-> now,
                sources |-> slice(sources, 0, 4),
                breakdown |->
                  [ k \in Slots |->
                      OrElse(OptGet(Get(res, "breakdown"), k), DataUnavailable) ] ])

\* groundingChunks?.map(c => c.web?.uri).filter(Boolean) || []
RECURSIVE webUris(_, _)
webUris(chunks, i) ==
    IF i > Len(chunks) THEN <<>>
    ELSE LET uri == OptGet(Get(chunks[i], "web"), "uri")
         IN (IF Truthy(uri) THEN <<uri.s>> ELSE <<>>) \o webUris(chunks, i + 1)

extractSources(groundingChunks) ==
    IF groundingChunks.t = "undefined" THEN <<>> ELSE webUris(groundingChunks.a, 1)

\* variant: an object without any field is a failure of the tier
formatParsedRejectsEmpty(parsed, r, u, now) ==
    IF ~parsed.ok THEN parsed
    ELSE IF parsed.v = Obj(EmptyFields) THEN Throw("SchemaMismatch")
    ELSE formatResult(parsed.v, extractSources(r.groundingChunks), u, now)

\* one tier: the provider's reply, then parseResponse, the sources, formatResult
formatParsed(parsed, r, u, now) ==
    IF ~parsed.ok THEN parsed
    ELSE formatResult(parsed.v, extractSources(r.groundingChunks), u, now)

tierAttempt(r, u, now) ==
    IF r.kind = "throws" THEN Throw("ProviderError")
    ELSE formatParsed(parseResponse(r.text), r, u, now)

-----------------------------------------------------------------------------
(* Inputs *)

Urls ==
    {"https://www.amazon.com/deal-xyz",
     "http://free-giveaway-winner.biz/claim-now",
     "http://unknown-shop.example/item",
     "https://www.AMAZON.com/FREE-gift"}

\* process.env.API_KEY
EnvKeys ==
    {Undefined, Str(""), Str("PLACEHOLDER_API_KEY"), Str("   "), Str("AIza-live-key")}

\* chunk i of a response's grounding metadata; chunk 2 carries no web source
chunk(i) ==
    IF i = 2 THEN Obj("retrievedContext" :> Obj(EmptyFields))
    ELSE Obj("web" :> Obj("uri" :> Str("https://ref.example/" \o ToString(i))))

ChunkLists ==
    {Undefined} \cup {Arr([i \in 1..n |-> chunk(i)]) : n \in {0, 2, MaxChunks}}

Plain(j) == j

Fenced(j) == "Here is the analysis:\n" \o Fence \o "json\n" \o j \o "\n" \o Fence \o "\nStay safe."

\* texts in which no JSON document can be found
BrokenTexts ==
    {"I cannot help with that request.",
     "{\"trust_score\":85,\"verdict\":",
     JsonText[Obj(FullRecord)] \o " :}",
     Fence \o "json\n" \o Fence}

\* the documents that are also sent inside a code fence, between prose
FencedDocs ==
    {Obj(FullRecord), Obj(EmptyFields), Obj([FullRecord EXCEPT !["verdict"] = Num(5, 0)]),
     Null, Num(5, 0)}

\* response.text
RawTexts ==
    {Undefined, Str("")}
    \cup {Str(t) : t \in BrokenTexts}
    \cup {Str(Plain(JsonText[d])) : d \in JsonDocs}
    \cup {Str(Fenced(JsonText[d])) : d \in FencedDocs}

\* what ai.models.generateContent does: it throws, or it returns a response
Responses ==
    {[kind |-> "throws"]}
    \cup {[kind |-> "response", text |-> t, groundingChunks |-> c] :
            t \in RawTexts, c \in ChunkLists}

NoResponse == [kind |-> "none"]
NoResult == [verdict |-> "none"]

\* parseResponse is not being run on its own
NormIdle == [phase |-> "idle"]

\* the analyzeProduct of part_000 is not being run
LegacyIdle == [pc |-> "Idle"]

-----------------------------------------------------------------------------
(* The requests *)

\* new URL(u).hostname of an http(s) URL; the constructor throws on the rest
hostnameOf(u) ==
    LET l == toLowerCase(u)
        rest == IF startsWithAt(l, 1, "https://") THEN SubSeq(l, 9, Len(l))
                ELSE IF startsWithAt(l, 1, "http://") THEN SubSeq(l, 8, Len(l))
                ELSE ""
        slash == indexOf(rest, "/")
        host == IF slash = -1 THEN rest ELSE substring(rest, 0, slash)
    IN IF host = "" THEN Throw("TypeError") ELSE Ok(host)

\* let hostname = url; try { hostname = new URL(url).hostname } catch {}
hostname(u) == IF hostnameOf(u).ok THEN hostnameOf(u).v ELSE u

systemInstruction == "You are TrustLens, an elite cybersecurity AI."

prompt(u) ==
    "Analyze this product URL: " \o u \o " REQUIRED CHECKS: 1. Verify Domain Trust for \""
        \o hostname(u) \o "\" via Search. Return JSON."

commonConfig ==
    [ responseMimeType |-> "application/json",
      responseSchema |-> <<"trust_score", "verdict", "breakdown", "reasons", "advice">>,
      safetySettings |-> <<"HARM_CATEGORY_HARASSMENT", "HARM_CATEGORY_DANGEROUS_CONTENT">> ]

tier1Request(u) ==
    [ model |-> "gemini-3-pro-preview",
      contents |-> prompt(u),
      config |-> commonConfig @@ [ systemInstruction |-> systemInstruction,
                                   tools |-> <<"googleSearch">> ] ]

tier2Request(u) ==
    [ model |-> "gemini-2.5-flash",
      contents |-> prompt(u),
      config |-> commonConfig @@ [ tools |-> <<"googleSearch">> ] ]

-----------------------------------------------------------------------------
(* The estimator's result for each URL and each tier's outcome for each
   response, computed once; only the timestamp depends on when they are run *)

\* the two requests for each URL
requests == [u \in Urls |-> <<tier1Request(u), tier2Request(u)>>]

mockResults == [u \in Urls |-> mockAnalyzeProduct(u, 0)]

tierResults == [u \in Urls |-> [r \in Responses |-> tierAttempt(r, u, 0)]]

\* timestamp: new Date().toISOString()
stamped(t, now) == IF t.ok THEN Ok([t.v EXCEPT !.timestamp = now]) ELSE t

-----------------------------------------------------------------------------
(* analyzeProduct, src/services/analysisService.ts *)

Init ==
    /\ url \in Urls
    /\ envKey \in EnvKeys
    /\ pc = "Init"
    /\ clock = 0
    /\ client = "none"
    /\ calls = <<>>
    /\ pending = 0
    /\ resp1 = NoResponse
    /\ resp2 = NoResponse
    /\ mockCalls = 0
    /\ outcome = "pending"
    /\ result = NoResult
    /\ norm = NormIdle
    /\ legacy = LegacyIdle

\* apiKey = process.env.API_KEY || ""
apiKey == OrElse(envKey, Str("")).s

\* variant: the key is not trimmed
keyMissingNoTrim(k) == k = "" \/ k = "PLACEHOLDER_API_KEY"

\* !apiKey || apiKey === "PLACEHOLDER_API_KEY" || apiKey.trim() === ""
keyMissing(k) == k = "" \/ k = "PLACEHOLDER_API_KEY" \/ trim(k) = ""

\* the key check fails: the estimator is called at once
StartNoKey ==
    /\ pc = "Init"
    /\ keyMissing(apiKey)
    /\ pc' = "Fallback"
    /\ mockCalls' = mockCalls + 1
    /\ clock' = clock + 1
    /\ UNCHANGED <<norm, legacy, url, envKey, client, calls, pending, resp1, resp2, outcome, result>>

\* variant: the constructor's exception escapes analyzeProduct
StartCtorThrowsRejects ==
    /\ pc = "Init"
    /\ ~keyMissing(apiKey)
    /\ client' = "threw"
    /\ outcome' = "rejected"
    /\ pc' = "Done"
    /\ clock' = clock + 1
    /\ UNCHANGED <<norm, legacy, url, envKey, calls, pending, resp1, resp2, mockCalls, result>>

\* new GoogleGenAI throws: the master catch calls the estimator
StartCtorThrows ==
    /\ pc = "Init"
    /\ ~keyMissing(apiKey)
    /\ client' = "threw"
    /\ pc' = "Fallback"
    /\ mockCalls' = mockCalls + 1
    /\ clock' = clock + 1
    /\ UNCHANGED <<norm, legacy, url, envKey, calls, pending, resp1, resp2, outcome, result>>

\* the client is built and the Tier 1 call is issued
StartTier1 ==
    /\ pc = "Init"
    /\ ~keyMissing(apiKey)
    /\ client' = "constructed"
    /\ calls' = Append(calls, requests[url][1])
    /\ pending' = pending + 1
    /\ pc' = "Tier1Attempt"
    /\ clock' = clock + 1
    /\ UNCHANGED <<norm, legacy, url, envKey, resp1, resp2, mockCalls, outcome, result>>

\* variant: the Tier 2 call is issued whatever Tier 1 answered
Tier1ReturnAlwaysTier2 ==
    /\ pc = "Tier1Attempt"
    /\ \E r \in Responses : resp1' = r
    /\ calls' = Append(calls, tier2Request(url))
    /\ pending' = pending - 1 + 1
    /\ pc' = "Tier2Attempt"
    /\ clock' = clock + 1
    /\ UNCHANGED <<norm, legacy, url, envKey, client, resp2, mockCalls, result, outcome>>

\* the Tier 1 call settles: success resolves, failure issues the Tier 2 call
Tier1Return ==
    /\ pc = "Tier1Attempt"
    /\ \E r \in Responses :
         /\ resp1' = r
         /\ \E t \in {stamped(tierResults[url][r], clock + 1)} :
            /\ IF t.ok
               THEN /\ result' = t.v
                    /\ outcome' = "resolved"
                    /\ pc' = "Done"
                    /\ pending' = pending - 1
                    /\ calls' = calls
               ELSE /\ calls' = Append(calls, requests[url][2])
                    /\ pending' = pending - 1 + 1
                    /\ pc' = "Tier2Attempt"
                    /\ UNCHANGED <<result, outcome>>
    /\ clock' = clock + 1
    /\ UNCHANGED <<norm, legacy, url, envKey, client, resp2, mockCalls>>

\* variant: whatever Tier 2 answers, the estimator is called
Tier2ReturnToMock ==
    /\ pc = "Tier2Attempt"
    /\ \E r \in Responses : resp2' = r
    /\ mockCalls' = mockCalls + 1
    /\ pc' = "Fallback"
    /\ pending' = pending - 1
    /\ clock' = clock + 1
    /\ UNCHANGED <<norm, legacy, url, envKey, client, calls, resp1, result, outcome>>

\* variant: a Tier 2 failure is swallowed and the defaults are returned
Tier2ReturnSwallows ==
    /\ pc = "Tier2Attempt"
    /\ \E r \in Responses : \E t \in {tierAttempt(r, url, clock + 1)} :
            /\ resp2' = r
            /\ result' = IF t.ok THEN t.v
                         ELSE formatResult(Obj(EmptyFields), <<>>, url, clock + 1).v
    /\ outcome' = "resolved"
    /\ pc' = "Done"
    /\ pending' = pending - 1
    /\ clock' = clock + 1
    /\ UNCHANGED <<norm, legacy, url, envKey, client, calls, resp1, mockCalls>>

\* the Tier 2 call settles: success resolves, failure is re-thrown to the
\* master catch, which calls the estimator
Tier2Return ==
    /\ pc = "Tier2Attempt"
    /\ \E r \in Responses :
         /\ resp2' = r
         /\ \E t \in {stamped(tierResults[url][r], clock + 1)} :
            /\ IF t.ok
               THEN /\ result' = t.v
                    /\ outcome' = "resolved"
                    /\ pc' = "Done"
                    /\ mockCalls' = mockCalls
               ELSE /\ mockCalls' = mockCalls + 1
                    /\ pc' = "Fallback"
                    /\ UNCHANGED <<result, outcome>>
    /\ pending' = pending - 1
    /\ clock' = clock + 1
    /\ UNCHANGED <<norm, legacy, url, envKey, client, calls, resp1>>

\* variant: the estimator's promise never settles
MockReturnHangs ==
    /\ pc = "Fallback"
    /\ UNCHANGED vars

\* the estimator's delay elapses and its result is returned
MockReturn ==
    /\ pc = "Fallback"
    /\ result' = [mockResults[url] EXCEPT !.timestamp = clock + 1]
    /\ outcome' = "resolved"
    /\ pc' = "Done"
    /\ clock' = clock + 1
    /\ UNCHANGED <<norm, legacy, url, envKey, client, calls, pending, resp1, resp2, mockCalls>>

Next ==
    \/ StartNoKey
    \/ StartCtorThrows
    \/ StartTier1
    \/ Tier1Return
    \/ Tier2Return
    \/ MockReturn

Spec == Init /\ [][Next]_vars

-----------------------------------------------------------------------------
(* Properties *)

Verdicts == {"Genuine", "Suspicious", "Fake"}

\* the provider response the result was formatted from, when a tier answered
answered == IF resp2 # NoResponse THEN resp2 ELSE resp1

byProvider == pc = "Done" /\ mockCalls = 0

byEstimator == pc = "Done" /\ mockCalls > 0

\* the verdict label of the record parsed from a response's text
labelOf(r) == Get(parseResponse(r.text).v, "verdict")

\* the record parsed from a response's text
recordOf(r) == parseResponse(r.text).v

IsScore(v) == v.t = "number" /\ v.f = 0 /\ v.w \in 0..100

\* a value that is missing or holds nothing: no value, "" or []
IsEmpty(v) == v \in {Undefined, Null, Str(""), Arr(<<>>)}

\* C1: analyzeProduct never rejects: whatever the key, the constructor and the
\* provider do on each tier, the promise is never rejected, and once the
\* function is done the promise is resolved with a result.
C1_NeverRejects ==
    /\ outcome # "rejected"
    /\ pc = "Done" <=> outcome = "resolved"
    /\ outcome = "resolved" => result # NoResult /\ result.url = url

\* both provider calls threw and the promise still resolved
C1_Witness ==
    /\ pc = "Done" /\ outcome = "resolved"
    /\ resp1.kind = "throws" /\ resp2.kind = "throws"

\* the constructor threw and the promise still resolved
C1_WitnessCtor == pc = "Done" /\ outcome = "resolved" /\ client = "threw"

\* C2: every returned result has a trust_score that is an integer in 0..100,
\* whatever the provider put in the trust_score field.
C2_ScoreInRange == pc = "Done" => IsScore(result.trust_score)

\* C3: every returned result has a non-empty reasons list, a non-empty advice
\* string and five non-empty breakdown slots.
C3_NothingEmpty ==
    pc = "Done" =>
        /\ ~IsEmpty(result.reasons)
        /\ ~IsEmpty(result.advice)
        /\ \A k \in Slots : ~IsEmpty(result.breakdown[k])

\* C4: the verdict of every returned result is one of Genuine, Suspicious and
\* Fake, whatever label the provider sent and also when it sent none.
C4_VerdictEnum == pc = "Done" => result.verdict \in Verdicts

\* a provider tier answered with a label that is not one of the three verdicts
C4_Witness ==
    /\ byProvider
    /\ labelOf(answered).t = "string"
    /\ labelOf(answered).s \notin Verdicts \cup {""}
    /\ result.verdict \in Verdicts

\* a provider tier answered without any label
C4_WitnessNoLabel ==
    /\ byProvider
    /\ labelOf(answered) = Undefined
    /\ result.verdict = "Suspicious"

\* the positions of the chunks of a response that carry a web URI
webChunks(r) ==
    IF r.groundingChunks = Undefined THEN {}
    ELSE {i \in 1..Len(r.groundingChunks.a) :
            /\ "web" \in DOMAIN r.groundingChunks.a[i].o
            /\ "uri" \in DOMAIN r.groundingChunks.a[i].o["web"].o
            /\ r.groundingChunks.a[i].o["web"].o["uri"] \notin {Undefined, Null, Str("")}}

\* C5: the sources of a result are at most 4; for a provider tier they are the
\* first 4, in order, of the web URIs of the chunks of the response that was
\* parsed (chunks without one are skipped); for the estimator they are empty.
C5_Sources ==
    pc = "Done" =>
        /\ Len(result.sources) <= 4
        /\ mockCalls > 0 => result.sources = <<>>
        /\ mockCalls = 0 =>
             /\ Len(result.sources) = Min(4, Cardinality(webChunks(answered)))
             /\ \A n \in 1..Len(result.sources) :
                  \E i \in webChunks(answered) :
                     /\ Cardinality({j \in webChunks(answered) : j < i}) = n - 1
                     /\ result.sources[n] = answered.groundingChunks.a[i].o["web"].o["uri"].s

\* a response with more than 4 web URIs and a chunk without one was cut to 4
C5_Witness ==
    /\ byProvider
    /\ Cardinality(webChunks(answered)) > 4
    /\ Cardinality(webChunks(answered)) < Len(answered.groundingChunks.a)
    /\ Len(result.sources) = 4

\* the key is missing, empty, the placeholder, or made of white space only
KeyUnusable ==
    \/ envKey = Undefined
    \/ envKey = Str("")
    \/ envKey = Str("PLACEHOLDER_API_KEY")
    \/ envKey.t = "string" /\ \A i \in 1..Len(envKey.s) : CharAt(envKey.s, i) = " "

\* the estimator's result for the URL, finalized at the current instant
estimate == mockAnalyzeProduct(url, clock)

\* C6: with a missing, empty, placeholder or blank key, analyzeProduct goes
\* from Init straight to Fallback: no client is constructed, no provider call
\* is made on either tier, and the result is the estimator's for the URL.
C6_NoKeyFallback ==
    KeyUnusable /\ pc # "Init" =>
        /\ pc \in {"Fallback", "Done"}
        /\ client = "none"
        /\ calls = <<>> /\ pending = 0
        /\ resp1 = NoResponse /\ resp2 = NoResponse
        /\ mockCalls = 1
        /\ pc = "Done" => result = estimate

\* a blank key ended in the estimator's result without any provider call
C6_Witness ==
    /\ envKey = Str("   ")
    /\ pc = "Done" /\ calls = <<>> /\ client = "none"
    /\ result = estimate

\* a tier attempt failed: the call threw, the text was empty, or no JSON
\* document could be parsed from it, or formatting the parsed value threw
failed(r) == r # NoResponse /\ ~tierAttempt(r, url, clock).ok

succeeded(r) == r # NoResponse /\ tierAttempt(r, url, clock).ok

\* C7: when Tier 1 fails and Tier 2 succeeds, the result is the formatted
\* output of the Tier 2 response (its parsed fields, its citation URIs) and
\* the estimator is not invoked.
C7_TieredDegradation ==
    succeeded(resp2) =>
        /\ failed(resp1)
        /\ pc = "Done" /\ outcome = "resolved"
        /\ mockCalls = 0
        /\ result = formatResult(recordOf(resp2), extractSources(resp2.groundingChunks),
                                 url, clock).v

\* Tier 1 threw, Tier 2 answered a record other than the estimator's, with
\* citations, and that became the result
C7_Witness ==
    /\ resp1.kind = "throws"
    /\ succeeded(resp2)
    /\ pc = "Done"
    /\ result.sources # <<>>
    /\ result.trust_score # estimate.trust_score
    /\ result.trust_score = Get(recordOf(resp2), "trust_score")

\* Tier 1 sent a text without JSON, and Tier 2's answer became the result
C7_WitnessParse ==
    /\ resp1.kind = "response" /\ Truthy(resp1.text) /\ failed(resp1)
    /\ succeeded(resp2)
    /\ pc = "Done"

\* C8: when both tiers fail, the result equals the estimator's output for
\* the URL, with nothing of either failed response in it.
C8_FullDegradation ==
    failed(resp1) /\ failed(resp2) =>
        /\ pc \in {"Fallback", "Done"}
        /\ mockCalls = 1
        /\ pc = "Done" =>
             /\ result.trust_score = estimate.trust_score
             /\ result.verdict = estimate.verdict
             /\ result.reasons = estimate.reasons
             /\ result.advice = estimate.advice
             /\ result.breakdown = estimate.breakdown
             /\ result.sources = <<>>

\* both tiers failed on responses that carried citations, and the result is
\* the estimator's
C8_Witness ==
    /\ failed(resp1) /\ failed(resp2)
    /\ resp1.kind = "response" /\ webChunks(resp1) # {}
    /\ resp2.kind = "response" /\ webChunks(resp2) # {}
    /\ pc = "Done"
    /\ result.sources = <<>>

\* the lower-cased URL contains one of the words
urlHas(words) == \E l \in {toLowerCase(url)} : \E w \in words : includes(l, w)

estimatorRule(trusted, scam) ==
    /\ trusted =>
         result.trust_score = Num(92, 0) /\ result.verdict = "Genuine"
    /\ ~trusted /\ scam =>
         result.trust_score = Num(25, 0) /\ result.verdict = "Fake"
    /\ ~trusted /\ ~scam =>
         result.trust_score = Num(65, 0) /\ result.verdict = "Suspicious"
    /\ result.reasons = Arr(<<
         IF trusted THEN "Domain matches a known major retailer"
                    ELSE "Domain trust level is low or unknown",
         IF scam THEN "Suspicious promotional keywords detected"
                 ELSE "Pricing analysis inconclusive",
         "Seller reputation scan completed" >>)

\* C9: the estimator's score, verdict and reasons are a function of the URL
\* alone: 92 / Genuine when the lower-cased URL contains a trusted substring
\* (also when it contains a scam keyword too), else 25 / Fake when it contains
\* a scam keyword, else 65 / Suspicious.
C9_Estimator ==
    byEstimator => estimatorRule(urlHas(trustedDomains), urlHas(scamKeywords))

\* a URL with a trusted substring and a scam keyword, both in upper case,
\* was estimated Genuine
C9_Witness ==
    /\ byEstimator
    /\ url = "https://www.AMAZON.com/FREE-gift"
    /\ urlHas(trustedDomains) /\ urlHas(scamKeywords)
    /\ result.verdict = "Genuine" /\ result.trust_score = Num(92, 0)

\* the lower-cased label the provider tier that answered sent ("" if none)
answeredLabel == toLowerCase(OrElse(labelOf(answered), Str("")).s)

C10_WitnessBoth ==
    /\ byProvider
    /\ labelOf(answered) = Str("Not genuine - fake")
    /\ result.verdict = "Genuine"

ClassifierKeywords == {"genuine", "safe", "fake", "scam", "danger"}

\* C11: a provider label that is missing, empty or without any of the
\* keywords genuine, safe, fake, scam, danger is classified Suspicious, and a
\* result of a provider tier is Genuine only if the label contains "genuine"
\* or "safe".
C11_DefaultSafe ==
    byProvider =>
        /\ (\A w \in ClassifierKeywords : ~includes(answeredLabel, w))
              => result.verdict = "Suspicious"
        /\ result.verdict = "Genuine"
              => labelOf(answered).t = "string"
                 /\ \/ includes(toLowerCase(labelOf(answered).s), "genuine")
                    \/ includes(toLowerCase(labelOf(answered).s), "safe")

\* the provider's label was "unverified" and the verdict is Suspicious
C11_Witness ==
    /\ byProvider
    /\ labelOf(answered) = Str("unverified")
    /\ result.verdict = "Suspicious"

\* the provider's label was null and the verdict is Suspicious
C11_WitnessNull ==
    /\ byProvider
    /\ labelOf(answered) = Null
    /\ result.verdict = "Suspicious"

\* the text holds no "{" that is followed, somewhere, by a "}"
noBracePair(s) ==
    ~\E i \in 1..Len(s) : CharAt(s, i) = "{" /\ \E j \in (i + 1)..Len(s) : CharAt(s, j) = "}"

\* C12: a non-empty provider text without a "{" ... "}" pair makes the tier
\* that received it fail; it never produces a result at that tier.
C12_NoBracesFails ==
    \A r \in {resp1, resp2} :
        (r.kind = "response" /\ Truthy(r.text) /\ noBracePair(r.text.s)) => failed(r)

-----------------------------------------------------------------------------
(* parseResponse of src/unnamed/part_000 *)

\* s.match(/<open>\s*([\s\S]*?)\s*<fence>/): the leftmost <open> that has a
\* fence after it, and as group 1 the text up to the first such fence, without
\* the white space at its two ends
fenceMatch(s, open) ==
    IF \E p \in 1..Len(s) :
          /\ startsWithAt(s, p, open)
          /\ \E q \in (p + Len(open))..Len(s) : startsWithAt(s, q, Fence)
    THEN LET p == CHOOSE p \in 1..Len(s) :
                    /\ startsWithAt(s, p, open)
                    /\ \A h \in 1..(p - 1) : ~startsWithAt(s, h, open)
             q == CHOOSE q \in (p + Len(open))..Len(s) :
                    /\ startsWithAt(s, q, Fence)
                    /\ \A h \in (p + Len(open))..(q - 1) : ~startsWithAt(s, h, Fence)
         IN [found |-> TRUE, group |-> trim(SubSeq(s, p + Len(open), q - 1))]
    ELSE [found |-> FALSE, group |-> ""]

\* the text between the first json fence and the next fence, else between the
\* first two fences, else the text itself
unwrapFences(s, jsonMatch, genericMatch) ==
    IF jsonMatch.found THEN jsonMatch.group
    ELSE IF genericMatch.found THEN genericMatch.group
    ELSE s

parseResponseLegacy(rawText) ==
    IF ~Truthy(rawText) THEN Throw("Empty response from AI")
    ELSE locateAndParse(unwrapFences(rawText.s,
                                     fenceMatch(rawText.s, Fence \o "json"),
                                     fenceMatch(rawText.s, Fence)))

-----------------------------------------------------------------------------
(* parseResponse run on its own: a JSON object alone, and the same object   *)
(* inside a code fence between prose                                        *)

NormLeads ==
    {"", "Here is the analysis:\n", "Summary {draft}:\n",
     "A fence (" \o Fence \o ") follows.\n"}

\* the language tag after the opening fence
NormTags == {"json", ""}

NormTrails == {"", "\nStay safe.", "\nDone :}"}

wrapText(n) ==
    n.lead \o Fence \o n.tag \o "\n" \o JsonText[n.doc] \o "\n" \o Fence \o n.trail

\* analyzeProduct is not being run
ResolverIdle ==
    /\ url = ""
    /\ envKey = Undefined
    /\ pc = "Idle"
    /\ clock = 0
    /\ client = "none"
    /\ calls = <<>>
    /\ pending = 0
    /\ resp1 = NoResponse
    /\ resp2 = NoResponse
    /\ mockCalls = 0
    /\ outcome = "pending"
    /\ result = NoResult

NormInit ==
    /\ ResolverIdle
    /\ legacy = LegacyIdle
    /\ norm \in [phase : {"input"}, doc : JsonObjects, lead : NormLeads,
                 tag : NormTags, trail : NormTrails]

resolverVars == <<url, envKey, pc, clock, client, calls, pending, resp1, resp2,
                  mockCalls, outcome, result>>

normOutput(n, impl, wrapped, plain) ==
    [phase |-> "done", impl |-> impl, doc |-> n.doc, lead |-> n.lead, tag |-> n.tag,
     trail |-> n.trail, wrapped |-> wrapped, plain |-> plain]

\* parseResponse of analysisService.ts on the wrapped and on the bare text
Normalize ==
    /\ norm.phase = "input"
    /\ norm' = normOutput(norm, "service", parseResponse(Str(wrapText(norm))),
                          parseResponse(Str(JsonText[norm.doc])))
    /\ UNCHANGED <<resolverVars, legacy>>

\* parseResponse of part_000 on the wrapped and on the bare text
NormalizeLegacy ==
    /\ norm.phase = "input"
    /\ norm' = normOutput(norm, "legacy", parseResponseLegacy(Str(wrapText(norm))),
                          parseResponseLegacy(Str(JsonText[norm.doc])))
    /\ UNCHANGED <<resolverVars, legacy>>

NormNext == Normalize \/ NormalizeLegacy

NormSpec == NormInit /\ [][NormNext]_vars

plainProse(s) == ~includes(s, "{") /\ ~includes(s, "}") /\ ~includes(s, Fence)

-----------------------------------------------------------------------------
(* Ordering of the attempts *)

\* position of a resolver state in Init -> Tier1Attempt -> Tier2Attempt ->
\* Fallback -> Done
rank(p) ==
    CASE p = "Init" -> 0
      [] p = "Tier1Attempt" -> 1
      [] p = "Tier2Attempt" -> 2
      [] p = "Fallback" -> 3
      [] p = "Done" -> 4

\* the provider calls made so far are Tier 1, then Tier 2, each at most once,
\* the second only after the first attempt failed; at most one is outstanding
tiersInOrder ==
    /\ pending \in 0..1
    /\ Len(calls) <= 2
    /\ Len(calls) >= 1 => calls[1].model = "gemini-3-pro-preview"
    /\ Len(calls) = 2 => calls[2].model = "gemini-2.5-flash" /\ failed(resp1)
    /\ mockCalls \in 0..1
    /\ succeeded(resp1) => Len(calls) = 1 /\ mockCalls = 0
    /\ succeeded(resp2) => mockCalls = 0

\* every step moves the resolver to a later state
noReentry == [][rank(pc') > rank(pc)]_vars

\* C14 as stated: the attempts are sequential and ordered, and the estimator
\* runs only after the key check failed or both tiers failed.
C14_Sequential ==
    /\ [](/\ tiersInOrder
          /\ mockCalls > 0 =>
                \/ KeyUnusable /\ calls = <<>>
                \/ failed(resp1) /\ failed(resp2))
    /\ noReentry

\* C14 amended: the attempts are sequential and ordered; the estimator runs at
\* most once, and only after the key check failed, or the client constructor
\* threw before any provider call, or both tiers failed; no state is re-entered
\* and nothing runs after a tier succeeded.
C14_SequentialOrCtor ==
    /\ [](/\ tiersInOrder
          /\ mockCalls > 0 =>
                \/ KeyUnusable /\ calls = <<>>
                \/ ~KeyUnusable /\ client = "threw" /\ calls = <<>>
                \/ failed(resp1) /\ failed(resp2))
    /\ noReentry

\* both tiers were called in turn and failed, then the estimator answered
C14_Witness ==
    /\ pc = "Done"
    /\ Len(calls) = 2
    /\ failed(resp1) /\ failed(resp2)
    /\ mockCalls = 1
    /\ pending = 0

\* the estimator answered after the constructor threw, with a usable key
C14_WitnessCtor ==
    /\ pc = "Done"
    /\ ~KeyUnusable
    /\ client = "threw"
    /\ calls = <<>>
    /\ mockCalls = 1

\* C15: the Tier 2 provider call carries the same system instructions, prompt,
\* output-shape contract, safety filters and search toggle as the Tier 1 call;
\* the two calls differ only in the model identifier.
C15_SameRequest ==
    Len(calls) = 2 => [calls[2] EXCEPT !.model = calls[1].model] = calls[1]

\* C16: formatResult returns a result for every value parseResponse can
\* return, so a tier fails only through the provider call or through parsing.
C16_FormatCannotFail ==
    \A r \in {resp1, resp2} :
        failed(r) => r.kind = "throws" \/ ~parseResponse(r.text).ok

\* the response's text parses to a JSON object with none of the fields of
\* the output-shape contract
noExpectedFields(r) ==
    /\ r.kind = "response"
    /\ \E parsed \in {parseResponse(r.text)} :
          /\ parsed.ok
          /\ parsed.v.t = "object"
          /\ DOMAIN parsed.v.o \cap DOMAIN FullRecord = {}

\* srcs are the first 4, in order, of the web URIs cited by response r
citedBy(r, srcs) ==
    /\ Len(srcs) = Min(4, Cardinality(webChunks(r)))
    /\ \A n \in 1..Len(srcs) :
          \E i \in webChunks(r) :
             /\ Cardinality({j \in webChunks(r) : j < i}) = n - 1
             /\ srcs[n] = r.groundingChunks.a[i].o["web"].o["uri"].s

\* C17: a tier whose response parses to an object with none of the expected
\* fields succeeds: the resolver is Done by that tier, no later tier and no
\* estimator run follows, and the result is trust_score 0, Suspicious, the
\* default reasons, advice and breakdown, the input url and that response's
\* citation URIs.
C17_SchemaMismatchDefaults ==
    \A r \in {resp1, resp2} :
        noExpectedFields(r) =>
            /\ pc = "Done" /\ outcome = "resolved"
            /\ mockCalls = 0
            /\ answered = r
            /\ Len(calls) = (IF r = resp2 THEN 2 ELSE 1)
            /\ result.trust_score = Num(0, 0)
            /\ result.verdict = "Suspicious"
            /\ result.reasons = Arr(<<"Analysis based on domain patterns.">>)
            /\ result.advice = Str("Proceed with caution.")
            /\ \A k \in Slots : result.breakdown[k] = Arr(<<"Data unavailable">>)
            /\ result.url = url
            /\ citedBy(r, result.sources)

\* Tier 1 answered {} with citations and the resolver finished
C17_Witness ==
    /\ noExpectedFields(resp1)
    /\ webChunks(resp1) # {}
    /\ pc = "Done"

\* Tier 2 answered {} inside a code fence after Tier 1 failed
C17_WitnessTier2 ==
    /\ failed(resp1)
    /\ noExpectedFields(resp2)
    /\ resp2.text.s # "{}"
    /\ pc = "Done"

-----------------------------------------------------------------------------
(* analyzeProduct, src/unnamed/part_000, run after the one of
   analysisService.ts on the same URL, key and provider behaviour *)

\* !apiKey || apiKey === "PLACEHOLDER_API_KEY" || apiKey === ""
keyMissingLegacy(k) == k = "" \/ k = "PLACEHOLDER_API_KEY"

promptLegacy(u) ==
    "Analyze this product URL: " \o u \o " REQUIRED CHECKS: 1. Verify Domain Trust for \""
        \o hostname(u) \o "\". Return JSON."

modelConfig ==
    [ systemInstruction |-> systemInstruction,
      tools |-> <<"googleSearch">>,
      responseMimeType |-> "application/json",
      responseSchema |-> <<"trust_score", "verdict", "breakdown", "reasons", "advice">>,
      safetySettings |-> <<"HARM_CATEGORY_HARASSMENT", "HARM_CATEGORY_HATE_SPEECH",
                           "HARM_CATEGORY_SEXUALLY_EXPLICIT",
                           "HARM_CATEGORY_DANGEROUS_CONTENT">> ]

tier1RequestLegacy(u) ==
    [model |-> "gemini-3-pro-preview", contents |-> promptLegacy(u), config |-> modelConfig]

tier2RequestLegacy(u) ==
    [model |-> "gemini-2.5-flash", contents |-> promptLegacy(u), config |-> modelConfig]

formatResultLegacy(res, sources, u, now) ==
    IF res.t \in {"undefined", "null"} THEN Throw("TypeError")
    ELSE LET label == OrElse(Get(res, "verdict"), Str(""))
         IN IF label.t # "string" THEN Throw("TypeError")
            ELSE Ok(
              [ trust_score |-> OrElse(Get(res, "trust_score"), Num(0, 0)),
                verdict |-> mappedVerdict(toLowerCase(label.s)),
                reasons |-> OrElse(Get(res, "reasons"),
                                   Arr(<<"Analysis based on domain reputation.">>)),
                advice |-> OrElse(Get(res, "advice"), Str("Verify independently.")),
                url |-> u,
                timestamp |-> now,
                sources |-> slice(sources, 0, 4),
                breakdown |->
                  [ k \in Slots |->
                      OrElse(OptGet(Get(res, "breakdown"), k), DataUnavailable) ] ])

formatParsedLegacy(parsed, r, u, now) ==
    IF ~parsed.ok THEN parsed
    ELSE formatResultLegacy(parsed.v, extractSources(r.groundingChunks), u, now)

tierAttemptLegacy(r, u, now) ==
    IF r.kind = "throws" THEN Throw("ProviderError")
    ELSE formatParsedLegacy(parseResponseLegacy(r.text), r, u, now)

\* the URLs of the side-by-side runs
PairUrls == {"http://unknown-shop.example/item", "https://www.AMAZON.com/FREE-gift"}

\* what the provider answers to a call that only part_000 makes
PairResponses ==
    {[kind |-> "throws"],
     [kind |-> "response", text |-> Str("I cannot help with that request."),
      groundingChunks |-> Undefined],
     [kind |-> "response", text |-> Str(JsonText[Obj(FullRecord)]),
      groundingChunks |-> Arr([i \in 1..2 |-> chunk(i)])]}

PairInit ==
    /\ url \in PairUrls
    /\ envKey \in EnvKeys
    /\ pc = "Init"
    /\ clock = 0
    /\ client = "none"
    /\ calls = <<>>
    /\ pending = 0
    /\ resp1 = NoResponse
    /\ resp2 = NoResponse
    /\ mockCalls = 0
    /\ outcome = "pending"
    /\ result = NoResult
    /\ norm = NormIdle
    /\ legacy = LegacyIdle

\* the state of the part_000 invocation when it starts
LegacyStarted ==
    [pc |-> "Init", client |-> "none", calls |-> <<>>, resp1 |-> NoResponse,
     resp2 |-> NoResponse, mockCalls |-> 0, outcome |-> "pending", result |-> NoResult]

\* the provider's answer to a tier of part_000: the one analysisService.ts got
\* from that tier, if it called it
sameAnswer(recorded) == IF recorded # NoResponse THEN {recorded} ELSE PairResponses

\* the key check fails: return mockAnalyzeProduct(url)
LegacyStartNoKey ==
    /\ pc = "Done" /\ legacy.pc = "Idle"
    /\ keyMissingLegacy(apiKey)
    /\ legacy' = [LegacyStarted EXCEPT !.pc = "Fallback", !.mockCalls = 1]
    /\ UNCHANGED <<norm, resolverVars>>

\* new GoogleGenAI throws outside every try: the promise rejects
LegacyCtorThrows ==
    /\ pc = "Done" /\ legacy.pc = "Idle"
    /\ ~keyMissingLegacy(apiKey)
    /\ client # "constructed"
    /\ legacy' = [LegacyStarted EXCEPT !.pc = "Done", !.client = "threw",
                                       !.outcome = "rejected"]
    /\ UNCHANGED <<norm, resolverVars>>

\* the client is built and the Tier 1 call is issued
LegacyStartTier1 ==
    /\ pc = "Done" /\ legacy.pc = "Idle"
    /\ ~keyMissingLegacy(apiKey)
    /\ client # "threw"
    /\ legacy' = [LegacyStarted EXCEPT !.pc = "Tier1Attempt", !.client = "constructed",
                                       !.calls = <<tier1RequestLegacy(url)>>]
    /\ UNCHANGED <<norm, resolverVars>>

\* the Tier 1 call settles: success resolves, failure issues the Tier 2 call
LegacyTier1Return ==
    /\ legacy.pc = "Tier1Attempt"
    /\ \E r \in sameAnswer(resp1) : \E t \in {tierAttemptLegacy(r, url, clock)} :
          legacy' = IF t.ok
                    THEN [legacy EXCEPT !.resp1 = r, !.result = t.v,
                                        !.outcome = "resolved", !.pc = "Done"]
                    ELSE [legacy EXCEPT !.resp1 = r, !.pc = "Tier2Attempt",
                                        !.calls = Append(@, tier2RequestLegacy(url))]
    /\ UNCHANGED <<norm, resolverVars>>

\* the Tier 2 call settles: success resolves, failure reaches the final catch,
\* which calls the estimator
LegacyTier2Return ==
    /\ legacy.pc = "Tier2Attempt"
    /\ \E r \in sameAnswer(resp2) : \E t \in {tierAttemptLegacy(r, url, clock)} :
          legacy' = IF t.ok
                    THEN [legacy EXCEPT !.resp2 = r, !.result = t.v,
                                        !.outcome = "resolved", !.pc = "Done"]
                    ELSE [legacy EXCEPT !.resp2 = r, !.pc = "Fallback", !.mockCalls = 1]
    /\ UNCHANGED <<norm, resolverVars>>

\* the estimator's delay elapses and its result is returned
LegacyMockReturn ==
    /\ legacy.pc = "Fallback"
    /\ legacy' = [legacy EXCEPT !.result = mockAnalyzeProduct(url, clock),
                                !.outcome = "resolved", !.pc = "Done"]
    /\ UNCHANGED <<norm, resolverVars>>

PairNext ==
    \/ StartNoKey
    \/ StartCtorThrows
    \/ StartTier1
    \/ Tier1Return
    \/ Tier2Return
    \/ MockReturn
    \/ LegacyStartNoKey
    \/ LegacyCtorThrows
    \/ LegacyStartTier1
    \/ LegacyTier1Return
    \/ LegacyTier2Return
    \/ LegacyMockReturn

PairSpec == PairInit /\ [][PairNext]_vars

\* the model identifiers of a sequence of provider calls
callModels(cs) == [i \in 1..Len(cs) |-> cs[i].model]

ComparedFields == {"trust_score", "verdict", "reasons", "advice", "breakdown", "sources"}

\* C18: run on the same URL, key and provider behaviour, the two analyzeProduct
\* make the same sequence of provider calls, both resolve or both reject, and
\* return the same trust_score, verdict, reasons, advice, breakdown and sources.
C18_Equivalent ==
    pc = "Done" /\ legacy.pc = "Done" =>
        /\ callModels(legacy.calls) = callModels(calls)
        /\ legacy.outcome = outcome
        /\ outcome = "resolved" =>
              \A f \in ComparedFields : legacy.result[f] = result[f]

-----------------------------------------------------------------------------
(* Termination *)

\* The synchronous code between two awaits runs to the next await; every
\* provider call that was issued returns or throws; the estimator's 1500 ms
\* timer fires.
Fairness ==
    /\ WF_vars(StartNoKey \/ StartCtorThrows \/ StartTier1)
    /\ WF_vars(Tier1Return)
    /\ WF_vars(Tier2Return)
    /\ WF_vars(MockReturn)

LiveSpec == Init /\ [][Next]_vars /\ Fairness

\* C19: every invocation eventually reaches Done, provided each provider call
\* returns or throws and the estimator's delay elapses, and it makes at most
\* two provider calls on the way.
C19_Terminates ==
    /\ <>(pc = "Done" /\ outcome # "pending" /\ pending = 0)
    /\ [](Len(calls) <= 2)

\* an invocation that used both provider calls and then the estimator settled
C19_Witness ==
    /\ pc = "Done"
    /\ outcome = "resolved"
    /\ Len(calls) = 2
    /\ mockCalls = 1
    /\ result.verdict \in Verdicts

\* C20: the estimator lists "Suspicious promotional keywords detected" only in
\* results whose verdict is Fake, and "Domain matches a known major retailer"
\* only in results whose verdict is Genuine; no result lists both.
C20_ReasonsAgree ==
    byEstimator =>
        \E rs \in {{result.reasons.a[i] : i \in 1..Len(result.reasons.a)}} :
            /\ "Suspicious promotional keywords detected" \in rs
                  => result.verdict = "Fake"
            /\ "Domain matches a known major retailer" \in rs
                  => result.verdict = "Genuine"
            /\ ~({"Suspicious promotional keywords detected",
                  "Domain matches a known major retailer"} \subseteq rs)

====
